---- MODULE Spec2Model ----
(***************************************************************************)
(* Model of fast_comp/completion.py: the context parser (gen_context), the *)
(* feed builder (gen_feed), source manufacture with its bounded call       *)
(* (manufacture.source), the fault isolator (osha), the aggregator         *)
(* (merge.gen) and the notification router (merge.listen).                 *)
(*                                                                         *)
(* Text is a sequence of one-character strings.  Time is a discrete clock: *)
(* a timer the event loop owns fires when it is due, while the latency of  *)
(* the external collaborators (sources, cache, editor host) is free.       *)
(*                                                                         *)
(* Spec       merge, then requests made one after the other (the caller    *)
(*            awaits each), with sources that yield, end, raise or hang.   *)
(*            A host round trip, a push or a manufacture step may fail.    *)
(* OverlapSpec merge, then requests made while earlier ones still wait.    *)
(* RouterSpec merge, then the notification router.                         *)
(* CtxSpec    gen_context applied to every line and column in the bounds.  *)
(*                                                                         *)
(* Taken as given: the host's print does not fail; a cancelled task stops  *)
(* at the await it is suspended on; factory names are distinct.            *)
(***************************************************************************)
EXTENDS Integers, Sequences, FiniteSets, TLC

\* ------------------------------------------------------------------ bounds
\* Longest line the context parser is given.
MaxLineLen == 3

\* Slots for requests that run at the same time.
MaxReqs == 2

\* Raw completions a source's lazy sequence holds for one feed.
MaxItems == 2

\* Notifications the host sends.
MaxNotifs == 3

\* ------------------------------------------------------------- characters
\* str.isalnum / str.isspace on the characters the model draws lines from.
AlnumChars == {"a", "0", "F", "f", "o", "b", "r", "z"}
SpaceChars == {" "}
Alphabet == {"a", "0", ".", "_", " "}

\* isalnum taking the underscore for a word character, as \w does.
isalnum_word(c) == c \in AlnumChars \cup {"_"}

isalnum(c) == c \in AlnumChars

isspace(c) == c \in SpaceChars

\* completion.py:36-37
is_sym(c) == ~isalnum(c) /\ ~isspace(c)

\* ------------------------------------------------------- sequence helpers
Min(a, b) == IF a < b THEN a ELSE b

Max(a, b) == IF a > b THEN a ELSE b

\* reversed(...) then "".join(...)
Reverse(s) == [i \in 1..Len(s) |-> s[Len(s) + 1 - i]]

\* Python's slice index: a negative index counts from the end, and the
\* result is clamped to 0..len.
SliceIndex(n, col) == IF col < 0 THEN Max(n + col, 0) ELSE Min(col, n)

\* line[:col]
SliceTo(line, col) == SubSeq(line, 1, SliceIndex(Len(line), col))

\* line[col:]
SliceFrom(line, col) == SubSeq(line, SliceIndex(Len(line), col) + 1, Len(line))

\* --------------------------------------------------------- Context Parser
\* AlnumLoop taking the underscore for a word character.
RECURSIVE AlnumLoopWord(_, _, _)
AlnumLoopWord(lb, i, r_alnums) ==
    IF i = 0 THEN [it |-> 0, r_alnums |-> r_alnums, r_syms |-> <<>>]
    ELSE IF isalnum(lb[i]) \/ lb[i] = "_"
         THEN AlnumLoopWord(lb, i - 1, Append(r_alnums, lb[i]))
    ELSE [it |-> i - 1, r_alnums |-> r_alnums,
          r_syms |-> IF is_sym(lb[i]) THEN <<lb[i]>> ELSE <<>>]

\* The first loop over the shared reversed iterator `it` (i is the index of
\* the next character it yields, 0 when exhausted): collects alphanumerics,
\* and consumes the character it stops on, keeping it when it is a symbol.
RECURSIVE AlnumLoop(_, _, _)
AlnumLoop(lb, i, r_alnums) ==
    IF i = 0 THEN [it |-> 0, r_alnums |-> r_alnums, r_syms |-> <<>>]
    ELSE IF isalnum(lb[i]) THEN AlnumLoop(lb, i - 1, Append(r_alnums, lb[i]))
    ELSE [it |-> i - 1, r_alnums |-> r_alnums,
          r_syms |-> IF is_sym(lb[i]) THEN <<lb[i]>> ELSE <<>>]

\* The second loop, over what is left of the same iterator.
RECURSIVE SymLoop(_, _, _)
SymLoop(lb, i, r_syms) ==
    IF i = 0 THEN r_syms
    ELSE IF is_sym(lb[i]) THEN SymLoop(lb, i - 1, Append(r_syms, lb[i]))
    ELSE r_syms

gen_context(line, col) ==
    LET line_before == SliceTo(line, col)
        line_after == SliceFrom(line, col)
        first == AlnumLoop(line_before, Len(line_before), <<>>)
        r_syms == SymLoop(line_before, first.it, first.r_syms)
    IN [line |-> line,
        line_before |-> line_before,
        line_after |-> line_after,
        alnums |-> Reverse(first.r_alnums),
        syms |-> Reverse(r_syms)]

\* ---------------------------------------------------------- configuration
\* The SourceFactory descriptors handed to merge, in configuration order:
\* timeout is in clock ticks (seconds).
Factories ==
    << [name |-> "paths", short_name |-> "P", priority |-> 2, timeout |-> 1, limit |-> 2],
       [name |-> "snips", short_name |-> "S", priority |-> 1, timeout |-> 2, limit |-> 1] >>

Facts == 1..Len(Factories)

Names == {Factories[f].name : f \in Facts}

\* A name no factory carries, for notifications to an unknown source.
UnknownName == "ghost"

\* The raw completions a source's lazy sequence holds for a feed, in order:
\* "F", "Fo", "Foo", ...  How far a call gets before it ends, raises or is
\* timed out is open.
Stream == [k \in 1..MaxItems |-> [new_prefix |-> [i \in 1..k |-> IF i = 1 THEN "F" ELSE "o"]]]

\* What the editor host may report at a request: line and cursor column.
EditorStates ==
    {[line |-> <<"a", ".">>, col |-> 2],
     [line |-> <<"a", " ">>, col |-> 2]}

\* The slots requests run in; a second slot is taken only by a request made
\* while another is running.
Reqs == 1..MaxReqs

Bodies == {"b1", "b2"}

\* ------------------------------------------------------------------ state
VARIABLES
    ctx,        \* context parser: the last (input, derived context)
    merged,     \* merge: "init" | "built" | "failed"
    mraised,    \* the factories whose manufacture step has raised
    mhung,      \* the factories whose manufacture step never completes
    src_gen,    \* per factory, what osha returned (done once it has)
    mlog,       \* diagnostics printed while manufacturing
    chans,      \* name -> whether a private channel is registered
    rpc,        \* per request: "idle" | "gather" | "done" | "failed"
    force,      \* per request: the force argument, as read by `if go or force`
    feed,       \* per request: the feed gen_feed built
    age,        \* per request: clock ticks since its calls were dispatched
    cpc,        \* per request: cache retrieve "none" | "running" | "returned"
    cfeed,      \* per request: the feed retrieve was called with
    cached,     \* per request: what retrieve returned
    spc,        \* per request and source: position of the source call
    sfeed,      \* per request and source: the feed the call was given
    cont,       \* per request and source: the accumulation task
    srcOut,     \* per request and source: raw completions src yielded
    acc,        \* per request and source: the list acc
    ret,        \* per request and source: what the call returned to gather
    printed,    \* per request and source: diagnostics the call printed
    pushed,     \* per request: the calls of Cache.push
    rankIn,     \* per request: the sequence handed to the ranker
    out,        \* per request: what request returned
    store,      \* the cache's content
    faulted,    \* the factories whose call has raised in some request so far
    order,      \* per request: the sources in the order their calls returned
    feedFailed, \* whether gen_feed has raised in some request so far
    inbound,    \* the shared inbound notification channel
    sent,       \* notifications the host has sent so far
    taken,      \* notifications the router has received, in order
    queue,      \* per factory: its private channel
    rlog,       \* diagnostics the router printed
    router      \* the router loop: "running" | "dead"

setupVars == <<merged, mraised, mhung, src_gen, mlog, chans>>

reqVars == <<rpc, force, feed, age, cpc, cfeed, cached, spc, sfeed, cont,
             srcOut, acc, ret, printed, pushed, rankIn, out, store, faulted,
             order, feedFailed>>

routerVars == <<inbound, sent, taken, queue, rlog, router>>

vars == <<ctx, setupVars, reqVars, routerVars>>

\* ----------------------------------------------------------------- values
RECURSIVE Flatten(_)
Flatten(ss) == IF ss = <<>> THEN <<>> ELSE Head(ss) \o Flatten(Tail(ss))

\* str.lower on one character, and on a text.
LowerChar(c) == CASE c = "F" -> "f" [] OTHER -> c

lower(text) == [i \in 1..Len(text) |-> LowerChar(text[i])]

\* The diagnostics handed to the host's print.
ErrorMsg(name) == [kind |-> "error", name |-> name, ms |-> 0]

TimeoutMsg(name, timeout) == [kind |-> "timeout", name |-> name, ms |-> timeout * 1000]

UnknownMsg(name) == [kind |-> "unknown", name |-> name, ms |-> 0]

\* ------------------------------------------------------------ Feed Builder
gen_feed(e) ==
    [filename |-> "buf.txt",
     filetype |-> "text",
     position |-> [row |-> 1, col |-> e.col],
     context |-> gen_context(e.line, e.col)]

NoFeed ==
    [filename |-> "",
     filetype |-> "",
     position |-> [row |-> 0, col |-> 0],
     context |-> gen_context(<<>>, 0)]

\* ----------------------------------------------------- Source Manufacturer
\* cont's loop body: one raw completion becomes one Step.
Step(f, comp) ==
    [source |-> Factories[f].name,
     source_shortname |-> Factories[f].short_name,
     priority |-> Factories[f].priority,
     normalized |-> lower(comp.new_prefix),
     comp |-> comp]

\* acc made once per source, in manufacture, instead of once per call: every
\* running call of the source appends to the same list.
accumulate_shared(a, f, comp) ==
    Append(Flatten([q \in Reqs |-> acc[q][f]]), Step(f, comp))

\* acc.append(completion)
accumulate(a, f, comp) == Append(a, Step(f, comp))

\* wait() returned with the task done and the task had finished: gather(*done)
\* passes, nothing is pending, and the call returns acc.
source_done(a) == [raise |-> FALSE, ret |-> a]

\* gather(*done, return_exceptions=True): the error is not re-raised.
source_raised_swallowed(a) == [raise |-> FALSE, ret |-> a]

\* wait() returned with the task done and the task had raised: gather(*done)
\* re-raises the error out of the call.
source_raised(a) == [raise |-> TRUE, ret |-> <<>>]

\* wait() returned on its timeout with the task pending: the task is
\* cancelled and one diagnostic is printed before the call returns.
source_timeout(f) ==
    [cancel |-> TRUE,
     msg |-> <<TimeoutMsg(Factories[f].name, Factories[f].timeout)>>]

\* A timeout that gives up what was accumulated, as wait_for would.
source_timeout_return_empty(a) == <<>>

\* return acc, once the timeout diagnostic has been printed.
source_timeout_return(a) == a

\* The timer of wait(): due once timeout has passed since the call started.
timer_due(f, elapsed) == elapsed >= Factories[f].timeout

\* The clock of a request stops counting one tick past the longest timeout.
Horizon == 1 + CHOOSE t \in {Factories[f].timeout : f \in Facts} :
                  \A f \in Facts : Factories[f].timeout <= t

\* ----------------------------------------------------------- Fault Isolator
\* osha without its try/except.
osha_uncaught(f, raised) ==
    [done |-> TRUE, name |-> Factories[f].name,
     step |-> IF raised THEN "" ELSE "o_step",
     chan |-> ~raised, raise |-> raised, msg |-> <<>>]

\* osha: the outcome of manufacture decides what is handed to merge.
osha(f, raised) ==
    IF raised
    THEN [done |-> TRUE, name |-> Factories[f].name, step |-> "nil_steps",
          chan |-> FALSE, raise |-> FALSE,
          msg |-> <<ErrorMsg(Factories[f].name)>>]
    ELSE [done |-> TRUE, name |-> Factories[f].name, step |-> "o_step",
          chan |-> TRUE, raise |-> FALSE, msg |-> <<>>]

NotManufactured(f) ==
    [done |-> FALSE, name |-> Factories[f].name, step |-> "", chan |-> FALSE,
     raise |-> FALSE, msg |-> <<>>]

\* o_step without its try/except.
o_step_uncaught(f, res) == [raise |-> res.raise, ret |-> res.ret, msg |-> <<>>]

\* nil_steps
nil_steps == <<>>

\* o_step: what step_fn returned is passed on; what it raised is caught.
o_step(f, res) ==
    IF res.raise
    THEN [raise |-> FALSE, ret |-> <<>>, msg |-> <<ErrorMsg(Factories[f].name)>>]
    ELSE [raise |-> FALSE, ret |-> res.ret, msg |-> <<>>]

\* -------------------------------------------------------------------- Cache
\* make_cache: the store is the set of steps pushed so far; retrieve hands
\* them back in the store's own order.
RECURSIVE SetToSeq(_)
SetToSeq(S) ==
    IF S = {} THEN <<>>
    ELSE LET x == CHOOSE y \in S : TRUE IN <<x>> \o SetToSeq(S \ {x})

retrieve(st, fd) == SetToSeq(st)

push(st, fd, steps) == st \cup {steps[i] : i \in 1..Len(steps)}

\* ------------------------------------------------------------- Fuzzy Ranker
limits == [n \in Names |-> Factories[CHOOSE f \in Facts : Factories[f].name = n].limit]

RECURSIVE Descending(_)
Descending(S) ==
    IF S = {} THEN <<>>
    ELSE LET m == CHOOSE x \in S : \A y \in S : y <= x
         IN <<m>> \o Descending(S \ {m})

\* fuzzer(settings.fuzzy, limits): at most limits[source] steps of a source,
\* higher priority first, each shown as a VimCompletion.
fuzzy(steps) ==
    LET under(i) == Cardinality({k \in 1..(i - 1) : steps[k].source = steps[i].source})
                        < limits[steps[i].source]
        keptIdx == {i \in 1..Len(steps) : under(i)}
        byPrio(p) == SelectSeq([i \in 1..Len(steps) |-> <<i, steps[i]>>],
                               LAMBDA x : x[1] \in keptIdx /\ x[2].priority = p)
        prios == Descending({Factories[f].priority : f \in Facts})
        ranked == Flatten([k \in 1..Len(prios) |-> byPrio(prios[k])])
    IN [k \in 1..Len(ranked) |->
          [word |-> ranked[k][2].comp.new_prefix, menu |-> ranked[k][2].source_shortname]]

\* --------------------------------------------------------------- Aggregator
\* go = prefix.alnums or prefix.syms
go(fd) == fd.context.alnums # <<>> \/ fd.context.syms # <<>>

\* dispatch that looks at neither go nor force.
dispatch_always(fd, fc) == TRUE

\* dispatch that forgets force.
dispatch_go_only(fd, fc) == go(fd)

\* if go or force
dispatch(fd, fc) == go(fd) \/ fc

\* Results flattened in the order the calls returned, as as_completed would
\* hand them over.
fresh_steps_as_completed(rets) ==
    LET r == CHOOSE q \in Reqs :
                 [f \in Facts |-> ret[q][f]] = rets /\ Len(order[q]) = Len(Factories)
    IN Flatten([i \in 1..Len(order[r]) |-> rets[order[r][i]]])

\* tuple(c for co in comps for c in co): gather hands the results back in the
\* order of its arguments, the order of the factories.
fresh_steps(rets) == Flatten(rets)

\* chain(cached, steps)
completions_cached_first(steps, cach) == cach \o steps

\* chain(steps, cached)
completions(steps, cach) == steps \o cach

\* What push is called with: the fresh steps, not what retrieve returned.
push_steps_all(steps, cach) == steps \o cach

push_steps(steps, cach) == steps

\* push(feed, steps) is a plain call in gen: an error it raises leaves gen.
push_called(raises) == [raise |-> raises]

\* feed = await gen_feed(nvim) with the error caught and gen going on.
gen_feed_raised_caught == [rpc |-> "gather", dispatch |-> TRUE]

\* feed = await gen_feed(nvim) is not guarded: an error of the host round
\* trip leaves gen before anything is dispatched.
gen_feed_raised == [rpc |-> "feed_failed", dispatch |-> FALSE]

NoOut == [returned |-> FALSE, position |-> [row |-> 0, col |-> 0], completions |-> <<>>]

\* ------------------------------------------------------------------- Init
\* Nothing derived yet from the line and column held.
Underived(line, col) ==
    [line |-> line, col |-> col, done |-> FALSE,
     derived |-> [line |-> <<>>, line_before |-> <<>>, line_after |-> <<>>,
                  alnums |-> <<>>, syms |-> <<>>]]

InitProgram ==
    /\ merged = "init"
    /\ mraised = {}
    /\ mhung = {}
    /\ src_gen = [f \in Facts |-> NotManufactured(f)]
    /\ mlog = <<>>
    /\ chans = [n \in Names |-> FALSE]
    /\ rpc = [r \in Reqs |-> "idle"]
    /\ force = [r \in Reqs |-> FALSE]
    /\ feed = [r \in Reqs |-> NoFeed]
    /\ age = [r \in Reqs |-> 0]
    /\ cpc = [r \in Reqs |-> "none"]
    /\ cfeed = [r \in Reqs |-> NoFeed]
    /\ cached = [r \in Reqs |-> <<>>]
    /\ spc = [r \in Reqs |-> [f \in Facts |-> "none"]]
    /\ sfeed = [r \in Reqs |-> [f \in Facts |-> NoFeed]]
    /\ cont = [r \in Reqs |-> [f \in Facts |-> "none"]]
    /\ srcOut = [r \in Reqs |-> [f \in Facts |-> <<>>]]
    /\ acc = [r \in Reqs |-> [f \in Facts |-> <<>>]]
    /\ ret = [r \in Reqs |-> [f \in Facts |-> <<>>]]
    /\ printed = [r \in Reqs |-> [f \in Facts |-> <<>>]]
    /\ pushed = [r \in Reqs |-> <<>>]
    /\ rankIn = [r \in Reqs |-> <<>>]
    /\ out = [r \in Reqs |-> NoOut]
    /\ store = {}
    /\ faulted = {}
    /\ order = [r \in Reqs |-> <<>>]
    /\ feedFailed = FALSE
    /\ inbound = <<>>
    /\ sent = 0
    /\ taken = <<>>
    /\ queue = [f \in Facts |-> <<>>]
    /\ rlog = <<>>
    /\ router = "running"

Init ==
    /\ ctx = Underived(<<>>, 0)
    /\ InitProgram

\* ------------------------------------------------------------------ merge
\* One osha of merge's gather: factory.manufacture returns or raises.
Manufacture(f, raised) ==
    /\ merged = "init"
    /\ ~src_gen[f].done
    /\ f \notin mhung
    /\ mraised' = IF raised THEN mraised \cup {f} ELSE mraised
    /\ LET res == osha(f, raised)
       IN /\ src_gen' = [src_gen EXCEPT ![f] = res]
          /\ mlog' = mlog \o res.msg
          /\ merged' = IF res.raise THEN "failed" ELSE merged
    /\ UNCHANGED <<ctx, mhung, chans, reqVars, routerVars>>

\* factory.manufacture never completes: `src = await fact(...)` stays
\* suspended, and with it the osha of f in merge's gather.
ManufactureHang(f) ==
    /\ merged = "init"
    /\ ~src_gen[f].done
    /\ f \notin mhung
    /\ mhung' = mhung \cup {f}
    /\ UNCHANGED <<ctx, merged, mraised, src_gen, mlog, chans, reqVars, routerVars>>

\* gather has every osha's result: chans and sources are built and merge
\* returns gen and listen.
Build ==
    /\ merged = "init"
    /\ \A f \in Facts : src_gen[f].done
    /\ chans' = [n \in Names |-> \E f \in Facts : src_gen[f].name = n /\ src_gen[f].chan]
    /\ merged' = "built"
    /\ UNCHANGED <<ctx, mraised, mhung, src_gen, mlog, reqVars, routerVars>>

\* -------------------------------------------------------------------- gen
\* Requests run in slots: a request takes the lowest slot no request is
\* running in, and its frames start afresh.
InFlight(r) == rpc[r] = "gather"

\* request(force): the feed is built, and either nothing is dispatched or
\* gather starts retrieve and every source's call, each call arming its timer.
Request(r, fc, e) ==
    /\ merged = "built"
    /\ ~InFlight(r)
    /\ \A q \in Reqs : q < r => InFlight(q)
    /\ LET fd == gen_feed(e)
           d == dispatch(fd, fc)
       IN /\ force' = [force EXCEPT ![r] = fc]
          /\ feed' = [feed EXCEPT ![r] = fd]
          /\ rpc' = [rpc EXCEPT ![r] = IF d THEN "gather" ELSE "done"]
          /\ cpc' = [cpc EXCEPT ![r] = IF d THEN "running" ELSE "none"]
          /\ cfeed' = [cfeed EXCEPT ![r] = IF d THEN fd ELSE NoFeed]
          /\ sfeed' = [sfeed EXCEPT ![r] = [f \in Facts |-> IF d THEN fd ELSE NoFeed]]
          /\ spc' = [spc EXCEPT ![r] =
                [f \in Facts |->
                   IF ~d THEN "none"
                   ELSE IF src_gen[f].step = "nil_steps" THEN "returned" ELSE "waiting"]]
          /\ cont' = [cont EXCEPT ![r] =
                [f \in Facts |->
                   IF d /\ src_gen[f].step = "o_step" THEN "running" ELSE "none"]]
          /\ ret' = [ret EXCEPT ![r] = [f \in Facts |-> nil_steps]]
          /\ out' = [out EXCEPT ![r] =
                IF d THEN NoOut
                ELSE [returned |-> TRUE, position |-> fd.position, completions |-> <<>>]]
          /\ order' = [order EXCEPT ![r] =
                IF d THEN SelectSeq([f \in Facts |-> f],
                                    LAMBDA f : src_gen[f].step = "nil_steps")
                ELSE <<>>]
    /\ age' = [age EXCEPT ![r] = 0]
    /\ cached' = [cached EXCEPT ![r] = <<>>]
    /\ srcOut' = [srcOut EXCEPT ![r] = [f \in Facts |-> <<>>]]
    /\ acc' = [acc EXCEPT ![r] = [f \in Facts |-> <<>>]]
    /\ printed' = [printed EXCEPT ![r] = [f \in Facts |-> <<>>]]
    /\ pushed' = [pushed EXCEPT ![r] = <<>>]
    /\ rankIn' = [rankIn EXCEPT ![r] = <<>>]
    /\ UNCHANGED <<ctx, setupVars, routerVars, store, faulted, feedFailed>>

\* request(force) when the host round trip of gen_feed raises: the error
\* leaves gen before go is computed.
FeedFail(r) ==
    /\ merged = "built"
    /\ ~InFlight(r)
    /\ \A q \in Reqs : q < r => InFlight(q)
    /\ LET res == gen_feed_raised
       IN /\ rpc' = [rpc EXCEPT ![r] = res.rpc]
          /\ cpc' = [cpc EXCEPT ![r] = IF res.dispatch THEN "running" ELSE "none"]
          /\ spc' = [spc EXCEPT ![r] =
                [f \in Facts |->
                   IF ~res.dispatch THEN "none"
                   ELSE IF src_gen[f].step = "nil_steps" THEN "returned" ELSE "waiting"]]
          /\ cont' = [cont EXCEPT ![r] =
                [f \in Facts |->
                   IF res.dispatch /\ src_gen[f].step = "o_step" THEN "running" ELSE "none"]]
          /\ order' = [order EXCEPT ![r] =
                IF res.dispatch
                THEN SelectSeq([f \in Facts |-> f], LAMBDA f : src_gen[f].step = "nil_steps")
                ELSE <<>>]
    /\ feedFailed' = TRUE
    /\ force' = [force EXCEPT ![r] = FALSE]
    /\ feed' = [feed EXCEPT ![r] = NoFeed]
    /\ cfeed' = [cfeed EXCEPT ![r] = NoFeed]
    /\ sfeed' = [sfeed EXCEPT ![r] = [f \in Facts |-> NoFeed]]
    /\ ret' = [ret EXCEPT ![r] = [f \in Facts |-> nil_steps]]
    /\ out' = [out EXCEPT ![r] = NoOut]
    /\ age' = [age EXCEPT ![r] = 0]
    /\ cached' = [cached EXCEPT ![r] = <<>>]
    /\ srcOut' = [srcOut EXCEPT ![r] = [f \in Facts |-> <<>>]]
    /\ acc' = [acc EXCEPT ![r] = [f \in Facts |-> <<>>]]
    /\ printed' = [printed EXCEPT ![r] = [f \in Facts |-> <<>>]]
    /\ pushed' = [pushed EXCEPT ![r] = <<>>]
    /\ rankIn' = [rankIn EXCEPT ![r] = <<>>]
    /\ UNCHANGED <<ctx, setupVars, routerVars, store, faulted>>

\* src(feed) yields one more raw completion and cont appends its Step.
SrcYield(r, f) ==
    /\ cont[r][f] = "running"
    /\ Len(srcOut[r][f]) < Len(Stream)
    /\ LET comp == Stream[Len(srcOut[r][f]) + 1]
       IN /\ srcOut' = [srcOut EXCEPT ![r][f] = Append(@, comp)]
          /\ acc' = [acc EXCEPT ![r][f] = accumulate(@, f, comp)]
    /\ UNCHANGED <<ctx, setupVars, routerVars, rpc, force, feed, age, cpc, cfeed,
                   cached, spc, sfeed, cont, ret, printed, pushed, rankIn, out, store, faulted, order, feedFailed>>

\* src(feed) is exhausted before the timer: the call returns acc.
SrcFinish(r, f) ==
    /\ spc[r][f] = "waiting"
    /\ cont[r][f] = "running"
    /\ LET res == o_step(f, source_done(acc[r][f]))
       IN /\ ret' = [ret EXCEPT ![r][f] = res.ret]
          /\ printed' = [printed EXCEPT ![r][f] = @ \o res.msg]
    /\ cont' = [cont EXCEPT ![r][f] = "done"]
    /\ spc' = [spc EXCEPT ![r][f] = "returned"]
    /\ order' = [order EXCEPT ![r] = Append(@, f)]
    /\ UNCHANGED <<ctx, setupVars, routerVars, rpc, force, feed, age, cpc, cfeed,
                   cached, sfeed, srcOut, acc, pushed, rankIn, out, store, faulted, feedFailed>>

\* src(feed) raises before the timer: o_step decides what becomes of it; an
\* error it lets through ends gather, and with it the request.
SrcRaise(r, f) ==
    /\ spc[r][f] = "waiting"
    /\ cont[r][f] = "running"
    /\ cont' = [cont EXCEPT ![r][f] = "raised"]
    /\ faulted' = faulted \cup {f}
    /\ LET res == o_step(f, source_raised(acc[r][f]))
       IN /\ printed' = [printed EXCEPT ![r][f] = @ \o res.msg]
          /\ IF res.raise
             THEN /\ spc' = [spc EXCEPT ![r][f] = "returned"]
                  /\ rpc' = [rpc EXCEPT ![r] = IF @ = "gather" THEN "failed" ELSE @]
                  /\ order' = [order EXCEPT ![r] = Append(@, f)]
             ELSE /\ spc' = [spc EXCEPT ![r][f] = "print_error"]
                  /\ rpc' = rpc
                  /\ order' = order
    /\ UNCHANGED <<ctx, setupVars, routerVars, force, feed, age, cpc, cfeed,
                   cached, sfeed, srcOut, acc, ret, pushed, rankIn, out, store, feedFailed>>

\* The timer of wait() fires with the task pending: the task is cancelled
\* and the diagnostic is handed to the host.
TimeOut(r, f) ==
    /\ spc[r][f] = "waiting"
    /\ cont[r][f] = "running"
    /\ timer_due(f, age[r])
    /\ LET t == source_timeout(f)
       IN /\ cont' = [cont EXCEPT ![r][f] = IF t.cancel THEN "cancelled" ELSE @]
          /\ printed' = [printed EXCEPT ![r][f] = @ \o t.msg]
    /\ spc' = [spc EXCEPT ![r][f] = "print_timeout"]
    /\ UNCHANGED <<ctx, setupVars, routerVars, rpc, force, feed, age, cpc, cfeed,
                   cached, sfeed, srcOut, acc, ret, pushed, rankIn, out, store, faulted, order, feedFailed>>

\* The host has printed the call's diagnostic: the call returns to gather.
PrintDone(r, f) ==
    /\ spc[r][f] \in {"print_timeout", "print_error"}
    /\ LET res == IF spc[r][f] = "print_timeout"
                  THEN o_step(f, [raise |-> FALSE, ret |-> source_timeout_return(acc[r][f])])
                  ELSE o_step(f, source_raised(acc[r][f]))
       IN ret' = [ret EXCEPT ![r][f] = res.ret]
    /\ spc' = [spc EXCEPT ![r][f] = "returned"]
    /\ order' = [order EXCEPT ![r] = Append(@, f)]
    /\ UNCHANGED <<ctx, setupVars, routerVars, rpc, force, feed, age, cpc, cfeed,
                   cached, sfeed, cont, srcOut, acc, printed, pushed, rankIn, out, store,
                   faulted, feedFailed>>

\* Cache.retrieve(feed) returns.
Retrieve(r) ==
    /\ cpc[r] = "running"
    /\ cached' = [cached EXCEPT ![r] = retrieve(store, cfeed[r])]
    /\ cpc' = [cpc EXCEPT ![r] = "returned"]
    /\ UNCHANGED <<ctx, setupVars, routerVars, rpc, force, feed, age, cfeed,
                   spc, sfeed, cont, srcOut, acc, ret, printed, pushed, rankIn, out, store, faulted, order, feedFailed>>

\* A join that is over as soon as one of the calls has returned, as
\* wait(return_when=FIRST_COMPLETED) would be.
Joinable_first_completed(r) ==
    /\ rpc[r] = "gather"
    /\ \/ cpc[r] = "returned"
       \/ \E f \in Facts : spc[r][f] = "returned"

\* gather(retrieve(feed), *(source(feed) ...)) has every result.
Joinable(r) ==
    /\ rpc[r] = "gather"
    /\ cpc[r] = "returned"
    /\ \A f \in Facts : spc[r][f] = "returned"

\* gather has every result: the fresh steps are flattened and pushed, and
\* the ranker gets fresh then cached.
Join(r, push_raises) ==
    /\ Joinable(r)
    /\ LET steps == fresh_steps([f \in Facts |-> ret[r][f]])
           all == completions(steps, cached[r])
           after == push_called(push_raises)
       IN /\ pushed' = [pushed EXCEPT ![r] =
                Append(@, [feed |-> feed[r], steps |-> push_steps(steps, cached[r]),
                           raised |-> push_raises])]
          /\ store' = IF push_raises THEN store
                      ELSE push(store, feed[r], push_steps(steps, cached[r]))
          /\ rankIn' = [rankIn EXCEPT ![r] = IF after.raise THEN @ ELSE Append(@, all)]
          /\ out' = [out EXCEPT ![r] =
                IF after.raise THEN @
                ELSE [returned |-> TRUE, position |-> feed[r].position,
                      completions |-> fuzzy(all)]]
          /\ rpc' = [rpc EXCEPT ![r] = IF after.raise THEN "push_failed" ELSE "done"]
    /\ age' = [age EXCEPT ![r] = 0]
    /\ UNCHANGED <<ctx, setupVars, routerVars, force, feed, cpc, cfeed,
                   cached, spc, sfeed, cont, srcOut, acc, ret, printed, faulted,
                   order, feedFailed>>

\* Time passes while a request is in flight.  The event loop runs a due
\* timer and a ready join before it waits again; sources, the cache and the
\* host take whatever time they take.
Tick ==
    /\ \E r \in Reqs : rpc[r] = "gather" /\ age[r] < Horizon
    /\ \A r \in Reqs, f \in Facts :
          ~(spc[r][f] = "waiting" /\ timer_due(f, age[r]))
    /\ \A r \in Reqs : ~Joinable(r)
    /\ age' = [r \in Reqs |-> IF rpc[r] = "gather" THEN Min(age[r] + 1, Horizon) ELSE age[r]]
    /\ UNCHANGED <<ctx, setupVars, routerVars, rpc, force, feed, cpc, cfeed,
                   cached, spc, sfeed, cont, srcOut, acc, ret, printed, pushed,
                   rankIn, out, store, faulted, order, feedFailed>>

\* rpc: "idle" before the first request of a slot, "gather" while gen awaits
\* its calls, "done" once gen returned, "failed" when an error of a source
\* call left gen, "push_failed" when an error of push did, "feed_failed"
\* when an error of gen_feed did.
\* The caller awaits a request before it makes the next one.
Awaited == \A q \in Reqs : ~InFlight(q)

Next ==
    \/ \E f \in Facts, raised \in BOOLEAN : Manufacture(f, raised)
    \/ \E f \in Facts : ManufactureHang(f)
    \/ Build
    \/ \E r \in Reqs, fc \in BOOLEAN, e \in EditorStates : Awaited /\ Request(r, fc, e)
    \/ \E r \in Reqs : Awaited /\ FeedFail(r)
    \/ \E r \in Reqs, f \in Facts : SrcYield(r, f)
    \/ \E r \in Reqs, f \in Facts : SrcFinish(r, f)
    \/ \E r \in Reqs, f \in Facts : SrcRaise(r, f)
    \/ \E r \in Reqs, f \in Facts : TimeOut(r, f)
    \/ \E r \in Reqs, f \in Facts : PrintDone(r, f)
    \/ \E r \in Reqs : Retrieve(r)
    \/ \E r \in Reqs, push_raises \in BOOLEAN : Join(r, push_raises)
    \/ Tick

Spec == Init /\ [][Next]_vars

\* Requests that overlap: every slot is taken once, a slot after the first
\* only while the requests before it are still waiting on their calls, and
\* by a request made because the cursor has moved since.
Moved(e) == \A q \in Reqs : InFlight(q) => feed[q] # gen_feed(e)

OverlapNext ==
    \/ \E f \in Facts : Manufacture(f, FALSE)
    \/ Build
    \/ \E r \in Reqs, e \in EditorStates :
          rpc[r] = "idle" /\ Moved(e) /\ Request(r, TRUE, e)
    \/ \E r \in Reqs, f \in Facts : SrcYield(r, f)
    \/ \E r \in Reqs, f \in Facts : SrcFinish(r, f)
    \/ \E r \in Reqs, f \in Facts : TimeOut(r, f)
    \/ \E r \in Reqs, f \in Facts : PrintDone(r, f)
    \/ \E r \in Reqs : Retrieve(r)
    \/ \E r \in Reqs : Join(r, FALSE)
    \/ Tick

OverlapSpec == Init /\ [][OverlapNext]_vars

\* ------------------------------------------------------------------ listen
\* A put on every registered channel, whatever the name.
route_any(notif) ==
    [put |-> {f \in Facts : chans[Factories[f].name]},
     body |-> <<notif.body>>, msg |-> <<>>, raise |-> FALSE]

\* chans[source]: a KeyError for a name that is no key.
route_keyerror(notif) ==
    IF notif.source \in DOMAIN chans /\ chans[notif.source]
    THEN [put |-> {f \in Facts : Factories[f].name = notif.source},
          body |-> <<notif.body>>, msg |-> <<>>, raise |-> FALSE]
    ELSE [put |-> {}, body |-> <<>>, msg |-> <<>>,
          raise |-> notif.source \notin DOMAIN chans]

\* chans.get(source) and what follows from it: a put on the channel found,
\* or a diagnostic when there is none.
route(notif) ==
    LET ch == IF notif.source \in DOMAIN chans THEN chans[notif.source] ELSE FALSE
    IN IF ch
       THEN [put |-> {f \in Facts : Factories[f].name = notif.source},
             body |-> <<notif.body>>, msg |-> <<>>, raise |-> FALSE]
       ELSE [put |-> {}, body |-> <<>>, msg |-> <<UnknownMsg(notif.source)>>,
             raise |-> FALSE]

\* The host puts a notification on the shared inbound channel.
Notify(n, b) ==
    /\ sent < MaxNotifs
    /\ sent' = sent + 1
    /\ inbound' = Append(inbound, [source |-> n, body |-> b])
    /\ UNCHANGED <<ctx, setupVars, reqVars, taken, queue, rlog, router>>

\* One turn of the loop of listen: chan.get(), then the put or the print.
Listen ==
    /\ merged = "built"
    /\ router = "running"
    /\ inbound # <<>>
    /\ LET notif == Head(inbound)
           res == route(notif)
       IN /\ taken' = Append(taken, notif)
          /\ queue' = [f \in Facts |-> IF f \in res.put THEN queue[f] \o res.body ELSE queue[f]]
          /\ rlog' = rlog \o res.msg
          /\ router' = IF res.raise THEN "dead" ELSE router
    /\ inbound' = Tail(inbound)
    /\ UNCHANGED <<ctx, setupVars, reqVars, sent>>

RouterNext ==
    \/ \E f \in Facts, raised \in BOOLEAN : Manufacture(f, raised)
    \/ Build
    \/ \E n \in Names \cup {UnknownName}, b \in Bodies : Notify(n, b)
    \/ Listen

RouterSpec == Init /\ [][RouterNext]_vars

\* ------------------------------------------------------------ gen_context
Lines == UNION {[1..n -> Alphabet] : n \in 0..MaxLineLen}

Cols == (0 - MaxLineLen - 1)..(MaxLineLen + 1)

\* Whole lines of source text with the cursor after an identifier, after an
\* operator and after a trailing space.
FooBarBaz == <<"f", "o", "o", ".", "b", "a", "r", "_", "b", "a", "z">>

ExampleInputs ==
    {Underived(FooBarBaz, Len(FooBarBaz)),
     Underived(<<"f", "o", "o", "-", ">", "b", "a", "r">>, 5),
     Underived(<<"f", "o", "o", " ">>, 4),
     Underived(<<"f", "o", "o", ".", " ", "b">>, 6)}

CtxInit ==
    /\ ctx \in {Underived(line, col) : line \in Lines, col \in Cols} \cup ExampleInputs
    /\ InitProgram

\* gen_context is applied to the line and the column.
Derive ==
    /\ ~ctx.done
    /\ ctx' = [ctx EXCEPT !.done = TRUE, !.derived = gen_context(ctx.line, ctx.col)]
    /\ UNCHANGED <<setupVars, reqVars, routerVars>>

CtxNext == Derive

CtxSpec == CtxInit /\ [][CtxNext]_vars

\* ================================================================= claims
\* A request whose calls were dispatched (gather was started).
Dispatched(r) == cpc[r] # "none"

\* sub occurs in s as one contiguous run.
Contains(s, sub) ==
    \E i \in 0..(Len(s) - Len(sub)) : SubSeq(s, i + 1, i + Len(sub)) = sub

\* The Steps of source f for the raw completions raw, in their order.
StepsOf(f, raw) ==
    [i \in 1..Len(raw) |->
       [source |-> Factories[f].name,
        source_shortname |-> Factories[f].short_name,
        priority |-> Factories[f].priority,
        normalized |-> lower(raw[i].new_prefix),
        comp |-> raw[i]]]

\* C1: a request whose feed was built with a context of empty alnums and
\* empty syms and whose force is false has returned (position, empty sequence), and no source
\* call, no cache retrieve and no cache push was made for it.
C1_IdleCursorUnforcedReturnsEmptyUntouched ==
    \A r \in Reqs :
        (rpc[r] \notin {"idle", "feed_failed"} /\ ~force[r]
            /\ feed[r].context.alnums = <<>> /\ feed[r].context.syms = <<>>)
        => /\ rpc[r] = "done"
           /\ out[r] = [returned |-> TRUE, position |-> feed[r].position,
                        completions |-> <<>>]
           /\ \A f \in Facts : spc[r][f] = "none" /\ cont[r][f] = "none"
                                /\ sfeed[r][f] = NoFeed
           /\ cpc[r] = "none"
           /\ pushed[r] = <<>>
           /\ rankIn[r] = <<>>

\* C1 witness: such a request has returned while the cache already holds
\* steps of an earlier request.
C1_Witness ==
    \E r \in Reqs :
        /\ rpc[r] = "done" /\ ~force[r] /\ out[r].returned
        /\ feed[r].context.alnums = <<>> /\ feed[r].context.syms = <<>>
        /\ feed[r].position.col = 2
        /\ store # {}

\* C2: a request with force true has Cache.retrieve and the call of every
\* configured source invoked with its own feed, whatever its context.
C2_ForcedRequestCallsCacheAndEverySource ==
    \A r \in Reqs :
        (rpc[r] # "idle" /\ force[r])
        => /\ cpc[r] # "none"
           /\ cfeed[r] = feed[r]
           /\ \A f \in Facts : spc[r][f] # "none" /\ sfeed[r][f] = feed[r]

\* C2 witness: a forced request on an idle cursor position has been answered
\* with steps of both sources.
C2_Witness ==
    \E r \in Reqs :
        /\ rpc[r] = "done" /\ force[r]
        /\ feed[r].context.alnums = <<>> /\ feed[r].context.syms = <<>>
        /\ \A f \in Facts : ret[r][f] # <<>>

\* C3: while the call of a source whose lazy sequence has neither ended nor
\* raised has not been handed back to gather, no more than that source's
\* timeout has passed since the call was dispatched; so such a source never
\* holds the join past its timeout.
C3_HangingSourceHandedBackByItsTimeout ==
    \A r \in Reqs, f \in Facts :
        (rpc[r] = "gather" /\ spc[r][f] # "returned"
            /\ cont[r][f] \in {"running", "cancelled"})
        => age[r] <= Factories[f].timeout

\* The timer of the call of f in request r has fired.
TimedOut(r, f) ==
    \/ spc[r][f] = "print_timeout"
    \/ \E i \in 1..Len(printed[r][f]) : printed[r][f][i].kind = "timeout"

\* C4: when a source of a request timed out or raised, the request is not
\* ended by it, no sibling's task is cancelled unless its own timer fired,
\* and once the request has returned the ranker was handed, once, a sequence
\* holding every step each other source returned.
C4_MisbehavingSourceLeavesSiblingsAndRequest ==
    \A r \in Reqs, g \in Facts :
        cont[r][g] \in {"raised", "cancelled"}
        => /\ rpc[r] # "failed"
           /\ \A f \in Facts \ {g} : cont[r][f] = "cancelled" => TimedOut(r, f)
           /\ rpc[r] = "done"
              => /\ Len(rankIn[r]) = 1
                 /\ out[r].returned
                 /\ \A f \in Facts \ {g} :
                       /\ spc[r][f] = "returned"
                       /\ Contains(rankIn[r][1], ret[r][f])

\* C4 witness: a request has returned in which one source timed out while
\* its sibling, still running then, went on to return two steps.
C4_Witness ==
    \E r \in Reqs :
        /\ rpc[r] = "done" /\ cont[r][1] = "cancelled"
        /\ cont[r][2] = "done" /\ Len(ret[r][2]) = 2
        /\ Len(rankIn[r]) = 1 /\ Contains(rankIn[r][1], ret[r][2])

\* C5: when a factory's manufacture step raised, merge does not fail, every
\* other factory is manufactured and gets its channel, and in every
\* dispatched request every other source is called with the feed, while the
\* failed source returns the empty sequence and has no channel registered.
C5_FailedManufactureIsContained ==
    \A g \in mraised :
        /\ merged # "failed"
        /\ src_gen[g].done /\ ~src_gen[g].chan
        /\ ~chans[Factories[g].name]
        /\ merged = "built"
           => \A f \in Facts \ mraised :
                 src_gen[f].done /\ src_gen[f].step = "o_step" /\ chans[Factories[f].name]
        /\ \A r \in Reqs :
              Dispatched(r)
              => /\ spc[r][g] = "returned" /\ ret[r][g] = <<>> /\ acc[r][g] = <<>>
                 /\ \A f \in Facts \ mraised :
                       /\ spc[r][f] # "none"
                       /\ cont[r][f] # "none"
                       /\ sfeed[r][f] = feed[r]
                 /\ rpc[r] = "done"
                    => \A i \in 1..Len(rankIn[r][1]) :
                          rankIn[r][1][i].source # Factories[g].name

\* C5 witness: the first factory failed to manufacture and a request has
\* returned with two steps of the second.
C5_Witness ==
    /\ mraised = {1}
    /\ \E r \in Reqs : rpc[r] = "done" /\ Len(ret[r][2]) = 2 /\ ret[r][1] = <<>>

\* C6: a source whose call raised hands the empty sequence to that request,
\* the request is not ended by the error, and a source that raised in some
\* request is called again, with the feed, in every dispatched request.
C6_CallErrorIsForOneRequestOnly ==
    /\ \A r \in Reqs, f \in Facts :
          cont[r][f] = "raised"
          => /\ rpc[r] # "failed"
             /\ spc[r][f] \in {"print_error", "returned"}
             /\ ret[r][f] = <<>>
             /\ rpc[r] = "done"
                => \A i \in 1..Len(rankIn[r][1]) :
                      rankIn[r][1][i].source = Factories[f].name
                      => \E j \in 1..Len(cached[r]) : cached[r][j] = rankIn[r][1][i]
    /\ \A r \in Reqs, f \in faulted :
          Dispatched(r)
          => spc[r][f] # "none" /\ cont[r][f] # "none" /\ sfeed[r][f] = feed[r]

\* C6 witness: a source that raised in an earlier request has, in a request
\* that has returned, finished with two steps.
C6_Witness ==
    \E r \in Reqs, f \in faulted :
        rpc[r] = "done" /\ cont[r][f] = "done" /\ Len(ret[r][f]) = 2

\* C9: when the timer of a call fired, its task is cancelled, the call
\* printed exactly one diagnostic, naming the source and its timeout in
\* milliseconds, the request is not ended, and what the call returns is the
\* steps of the raw completions the source had yielded, in their order.
C9_TimeoutKeepsAccumulatedSteps ==
    \A r \in Reqs, f \in Facts :
        TimedOut(r, f)
        => /\ cont[r][f] = "cancelled"
           /\ printed[r][f] = << [kind |-> "timeout", name |-> Factories[f].name,
                                  ms |-> Factories[f].timeout * 1000] >>
           /\ rpc[r] # "failed"
           /\ acc[r][f] = StepsOf(f, srcOut[r][f])
           /\ spc[r][f] = "returned" => ret[r][f] = StepsOf(f, srcOut[r][f])

\* C9 witness: a call that timed out after two raw completions has returned
\* and its request has returned.
C9_Witness ==
    \E r \in Reqs, f \in Facts :
        /\ cont[r][f] = "cancelled" /\ spc[r][f] = "returned"
        /\ Len(srcOut[r][f]) = 2 /\ Len(ret[r][f]) = 2
        /\ rpc[r] = "done"

\* The bodies of the notifications of seq addressed to name, in order.
BodiesFor(seq, name) ==
    LET mine == SelectSeq(seq, LAMBDA n : n.source = name)
    IN [i \in 1..Len(mine) |-> mine[i].body]

\* C7: the private channel of a registered source holds, in the order of
\* their arrival and each exactly once, the bodies of the notifications the
\* router has received for that source's name.
C7_RegisteredNotificationsDeliveredOnceInOrder ==
    \A f \in Facts :
        chans[Factories[f].name] => queue[f] = BodiesFor(taken, Factories[f].name)

\* C7 witness: a source's channel holds two different bodies while a
\* notification for another source was received between them.
C7_Witness ==
    /\ Len(taken) = 3
    /\ taken[1].source = "paths" /\ taken[2].source = "snips" /\ taken[3].source = "paths"
    /\ queue[1] = <<"b2", "b1">>
    /\ queue[2] = <<"b1">>

\* A name with a registered channel.
Registered(name) == name \in DOMAIN chans /\ chans[name]

\* C8: the notifications received for names without a registered channel
\* are on no private channel: each left one diagnostic naming it, in order,
\* and nothing else; the router loop is still running, and the channels hold
\* exactly the notifications received for registered names.
C8_UnroutableNotificationIsDroppedWithDiagnostic ==
    merged = "built" =>
        LET lost == SelectSeq(taken, LAMBDA n : ~Registered(n.source))
            kept == SelectSeq(taken, LAMBDA n : Registered(n.source))
        IN /\ router = "running"
           /\ rlog = [i \in 1..Len(lost) |-> [kind |-> "unknown", name |-> lost[i].source, ms |-> 0]]
           /\ \A f \in Facts :
                 Len(queue[f]) = Len(SelectSeq(kept, LAMBDA n : n.source = Factories[f].name))
           /\ \A f \in Facts : ~chans[Factories[f].name] => queue[f] = <<>>

\* C8 witness: a notification to an unknown name and one to a source whose
\* manufacture failed were dropped, and a later one was delivered.
C8_Witness ==
    /\ mraised = {2}
    /\ Len(taken) = 3
    /\ taken[1].source = UnknownName /\ taken[2].source = "snips" /\ taken[3].source = "paths"
    /\ Len(rlog) = 2
    /\ queue[1] = <<taken[3].body>>
    /\ router = "running"

\* C10: the derived context splits the line at the cursor, line_before +
\* line_after = line, and alnums is the longest suffix of line_before that
\* is made of alphanumeric characters only.
C10_ContextSplitsLineAndAlnumsIsLongestSuffix ==
    ctx.done =>
        LET d == ctx.derived
            n == Len(d.line_before)
            k == Len(d.alnums)
        IN /\ d.line = ctx.line
           /\ d.line_before \o d.line_after = ctx.line
           /\ k <= n
           /\ d.alnums = SubSeq(d.line_before, n - k + 1, n)
           /\ \A i \in 1..k : d.alnums[i] \in AlnumChars
           /\ k < n => d.line_before[n - k] \notin AlnumChars

\* C10 witness: a cursor inside the line, given as a negative column, after
\* an alphanumeric that follows another character.
C10_Witness ==
    /\ ctx.done
    /\ ctx.col < 0
    /\ Len(ctx.derived.alnums) = 1
    /\ Len(ctx.derived.line_before) = 2
    /\ ctx.derived.line_after # <<>>

\* C11: when the character right before the alnums run in line_before is a
\* whitespace character (the reverse alphanumeric scan stopped on it), the
\* derived syms is empty, whatever precedes that whitespace.
C11_ScanStoppedOnWhitespaceLeavesSymsEmpty ==
    ctx.done =>
        LET d == ctx.derived
            n == Len(d.line_before)
            k == Len(d.alnums)
        IN (k < n /\ d.line_before[n - k] \in SpaceChars) => d.syms = <<>>

\* C12 as stated: for "foo.bar_baz" and column 11, alnums is "bar_baz" and
\* syms is empty.
C12_UnderscoreIsPartOfTheAlnumRun ==
    (ctx.done /\ ctx.line = FooBarBaz /\ ctx.col = Len(FooBarBaz))
    => /\ ctx.derived.alnums = <<"b", "a", "r", "_", "b", "a", "z">>
       /\ ctx.derived.syms = <<>>

\* C12 amended: for "foo.bar_baz" and column 11, alnums is "baz" and syms is
\* "_": the underscore is not alphanumeric, it ends the alphanumeric run and
\* is the symbol run.
C12_UnderscoreEndsTheAlnumRun ==
    (ctx.done /\ ctx.line = FooBarBaz /\ ctx.col = Len(FooBarBaz))
    => /\ ctx.derived.alnums = <<"b", "a", "z">>
       /\ ctx.derived.syms = <<"_">>
       /\ ctx.derived.line_before = FooBarBaz
       /\ ctx.derived.line_after = <<>>

\* C12 witness: the context of "foo.bar_baz" at column 11 has been derived.
C12_Witness ==
    /\ ctx.done
    /\ ctx.line = FooBarBaz /\ ctx.col = Len(FooBarBaz)
    /\ Len(ctx.derived.alnums) = 3

\* C13: a dispatched request whose call of Cache.push raised has returned,
\* the position together with the ranking of its fresh steps followed by
\* its cached steps; the error of push did not leave gen.
C13_PushFailureDoesNotSurface ==
    \A r \in Reqs :
        (\E i \in 1..Len(pushed[r]) : pushed[r][i].raised)
        => /\ rpc[r] = "done"
           /\ out[r] = [returned |-> TRUE, position |-> feed[r].position,
                        completions |->
                            fuzzy(Flatten([f \in Facts |-> ret[r][f]]) \o cached[r])]

\* C14: a request whose gen_feed raised has failed without result, and no
\* source call, no cache retrieve and no cache push was made for it; a
\* request made after such a failure dispatches as its own feed and force
\* say, calls every source with its feed, and returns once it is joined.
C14_FeedFailureFailsThatRequestOnly ==
    /\ \A r \in Reqs :
          rpc[r] = "feed_failed"
          => /\ ~out[r].returned
             /\ cpc[r] = "none"
             /\ \A f \in Facts : spc[r][f] = "none" /\ cont[r][f] = "none"
                                  /\ srcOut[r][f] = <<>>
             /\ pushed[r] = <<>>
             /\ rankIn[r] = <<>>
    /\ feedFailed
       => \A r \in Reqs :
             rpc[r] \notin {"idle", "feed_failed"}
             => /\ Dispatched(r) <=> (go(feed[r]) \/ force[r])
                /\ Dispatched(r)
                   => /\ cfeed[r] = feed[r]
                      /\ \A f \in Facts : spc[r][f] # "none" /\ sfeed[r][f] = feed[r]
                /\ rpc[r] = "done" => out[r].returned /\ out[r].position = feed[r].position

\* C14 witness: after a request whose gen_feed raised, a request has
\* returned with two steps of the first source.
C14_Witness ==
    /\ feedFailed
    /\ \E r \in Reqs : rpc[r] = "done" /\ Len(ret[r][1]) = 2 /\ out[r].completions # <<>>

\* The steps a source call hands to gather: those of the raw completions its
\* source yielded, unless the source raised or was never manufactured.
Handed(r, f) ==
    IF cont[r][f] \in {"done", "cancelled"} THEN StepsOf(f, srcOut[r][f]) ELSE <<>>

\* The request r was joined: gen went past its gather.
Joined(r) == Dispatched(r) /\ rpc[r] \in {"done", "push_failed"}

\* C15: in a dispatched request, when the ranker was invoked or the request
\* has returned, the cache retrieve has returned and the call of every
\* source has returned to gather with no accumulation task still running.
C15_RankAndReturnOnlyAfterFullJoin ==
    \A r \in Reqs :
        (Dispatched(r) /\ (rankIn[r] # <<>> \/ out[r].returned \/ rpc[r] = "done"))
        => /\ cpc[r] = "returned"
           /\ \A f \in Facts : spc[r][f] = "returned" /\ cont[r][f] # "running"
           /\ Len(order[r]) = Len(Factories)

\* C15 witness: a request has returned whose first source was timed out
\* after its sibling had returned, with steps from the cache as well.
C15_Witness ==
    \E r \in Reqs :
        /\ rpc[r] = "done" /\ out[r].returned
        /\ order[r] = <<2, 1>>
        /\ cont[r][1] = "cancelled" /\ cont[r][2] = "done"
        /\ cached[r] # <<>>

\* C16: the one sequence handed to the ranker in a dispatched request is
\* the steps of each source, in the order the source yielded them, followed
\* by everything the cache returned: nothing dropped, nothing de-duplicated.
C16_RankerGetsFreshThenCached ==
    \A r \in Reqs :
        (Dispatched(r) /\ rpc[r] = "done")
        => /\ Len(rankIn[r]) = 1
           /\ rankIn[r][1] = Flatten([f \in Facts |-> Handed(r, f)]) \o cached[r]
           /\ Len(rankIn[r][1]) =
                  Len(Handed(r, 1)) + Len(Handed(r, 2)) + Len(cached[r])

\* C16 witness: the ranker was handed two fresh steps of the first source
\* and cached steps among which one of those fresh steps occurs again.
C16_Witness ==
    \E r \in Reqs :
        /\ rpc[r] = "done" /\ Len(rankIn[r]) = 1
        /\ Len(ret[r][1]) = 2
        /\ \E j \in 1..Len(cached[r]) : cached[r][j] = ret[r][1][1]
        /\ Len(rankIn[r][1]) > Len(cached[r]) + 1

\* C17: Cache.push is not called before the join nor in a request that was
\* not dispatched; once a dispatched request is joined, push was called
\* exactly once, with the request's feed and exactly the request's fresh
\* steps, and with none of what retrieve returned appended.
C17_PushOncePerDispatchedRequestWithFreshSteps ==
    \A r \in Reqs :
        /\ (~Dispatched(r) \/ rpc[r] = "gather") => pushed[r] = <<>>
        /\ pushed[r] # <<>>
           => /\ cpc[r] = "returned"
              /\ \A f \in Facts : spc[r][f] = "returned"
        /\ Joined(r)
           => /\ Len(pushed[r]) = 1
              /\ pushed[r][1].feed = feed[r]
              /\ pushed[r][1].steps = Flatten([f \in Facts |-> ret[r][f]])

\* C17 witness: a request was joined with fresh steps and with cached
\* steps, and push was called with the fresh ones.
C17_Witness ==
    \E r \in Reqs :
        /\ Joined(r) /\ cached[r] # <<>>
        /\ Len(pushed[r]) = 1 /\ Len(pushed[r][1].steps) = 3

\* The place of a source name in the configuration.
FactIndex(name) == CHOOSE f \in Facts : Factories[f].name = name

\* C20: the fresh steps handed to the ranker are in the order of the
\* factories, whatever the order in which the calls returned: the steps
\* before the cached ones are as many as the sources returned, and a step of
\* a factory given later never precedes a step of a factory given earlier.
C20_FreshStepsInFactoryOrder ==
    \A r \in Reqs :
        (Dispatched(r) /\ rpc[r] = "done")
        => LET n == Len(ret[r][1]) + Len(ret[r][2])
               fresh == SubSeq(rankIn[r][1], 1, n)
           IN /\ Len(rankIn[r][1]) = n + Len(cached[r])
              /\ \A i, j \in 1..n :
                    i < j => FactIndex(fresh[i].source) <= FactIndex(fresh[j].source)
              /\ \A f \in Facts :
                    SelectSeq(fresh, LAMBDA x : x.source = Factories[f].name) = ret[r][f]

\* C20 witness: the call of the second source returned before the call of
\* the first, both with steps, and the request has returned.
C20_Witness ==
    \E r \in Reqs :
        /\ rpc[r] = "done" /\ order[r] = <<2, 1>>
        /\ ret[r][1] # <<>> /\ ret[r][2] # <<>>
        /\ cont[r][1] = "done"

\* C18: when the manufacture step of some factory hangs and the manufacture
\* step of every other factory has completed, merge has returned or is able
\* to, so that requests can query the sources that were manufactured.
C18_HangingManufactureDoesNotHoldConstruction ==
    (mhung # {} /\ \A f \in Facts \ mhung : src_gen[f].done)
    => merged = "built" \/ ENABLED Build

\* C19: with requests that overlap, what a call has accumulated and what it
\* hands back are the steps of the raw completions yielded by the iteration
\* started for that request with that request's feed, also for a call that
\* was timed out; the fresh steps ranked and pushed for a request are those
\* of its own calls and no others.
C19_OverlappingRequestsKeepTheirOwnSteps ==
    \A r \in Reqs :
        Dispatched(r)
        => /\ \A f \in Facts :
                 /\ sfeed[r][f] = feed[r]
                 /\ acc[r][f] = StepsOf(f, srcOut[r][f])
                 /\ spc[r][f] = "returned" => ret[r][f] = StepsOf(f, srcOut[r][f])
           /\ rpc[r] = "done"
              => /\ pushed[r][1].feed = feed[r]
                 /\ pushed[r][1].steps =
                        Flatten([f \in Facts |-> StepsOf(f, srcOut[r][f])])
                 /\ SubSeq(rankIn[r][1], 1, Len(pushed[r][1].steps)) = pushed[r][1].steps
                 /\ Len(rankIn[r][1]) = Len(pushed[r][1].steps) + Len(cached[r])

\* C19 witness: a request started while another was waiting on its sources
\* and with another feed has returned two steps of the first source, while
\* the call of the first source in the other request was timed out after
\* one step.
C19_Witness ==
    /\ rpc[1] = "done" /\ rpc[2] = "done"
    /\ feed[1] # feed[2]
    /\ cont[1][1] = "cancelled" /\ Len(ret[1][1]) = 1
    /\ cont[2][1] = "done" /\ Len(ret[2][1]) = 2

====
